---- MODULE Spec2Model ----
\* Model of physrisk/data/hazard_data_provider.py: the scenario normaliser, the
\* family path resolvers, the generic (inventory-backed) path resolver and the
\* acute / chronic hazard data providers.
\*
\* Representation of Python values
\*   - a str that the code parses (a model, a scenario, a resource's path, a
\*     piece of an array-name template): the sequence of its tokens, every "/"
\*     being a token of its own and no other token holding a "/":
\*     <<"wtsub", "/", "95">> is "wtsub/95", <<>> is ""; split() and the path
\*     joins scan it;
\*   - a str the code only returns (a resolved path): a TLA+ string;
\*   - a resource's scenario id: the sequence of its characters, so that
\*     startswith() is computed;
\*   - the outcome of a call: a record [tag, val, exc, msg] with tag "return"
\*     (val is the value), "none" (the call returned None) or "raise" (exc is
\*     the exception class, msg identifies the raise site).
EXTENDS Integers, Sequences, FiniteSets, TLC

VARIABLES call, out, provider, ctor, req, pc, path, reads, readRes, result

vars == <<call, out, provider, ctor, req, pc, path, reads, readRes, result>>

provVars == <<provider, ctor, req, pc, path, reads, readRes, result>>

----------------------------------------------------------------------------
\* Bounds of the model.

\* Largest number of "/"-separated components of a model string drawn as input.
MaxParts == 3

\* Largest number of scenarios a registered resource declares.
MaxScen == 2

\* Largest number of coordinate pairs of a request.
MaxCoords == 2

\* Largest number of columns (return periods) of an array the reader returns.
MaxCols == 2

----------------------------------------------------------------------------
\* Outcomes of a call.

Return(v) == [tag |-> "return", val |-> v, exc |-> "", msg |-> ""]

ReturnNone == [tag |-> "none", val |-> "", exc |-> "", msg |-> ""]

Raise(e, m) == [tag |-> "raise", val |-> "", exc |-> e, msg |-> m]

NoOutcome == [tag |-> "pending", val |-> "", exc |-> "", msg |-> ""]

----------------------------------------------------------------------------
\* String helpers of the Python runtime.

\* "".join(tokens)
RECURSIVE Concat(_)
Concat(ts) == IF ts = <<>> THEN "" ELSE Head(ts) \o Concat(Tail(ts))

\* str.split("/") over a token sequence, scanning left to right: parts holds
\* the finished pieces, cur the piece being read.
RECURSIVE SplitScan(_, _, _)
SplitScan(ts, parts, cur) ==
  IF ts = <<>> THEN Append(parts, cur)
  ELSE IF Head(ts) = "/" THEN SplitScan(Tail(ts), Append(parts, cur), "")
  ELSE SplitScan(Tail(ts), parts, cur \o Head(ts))

Split(model) == SplitScan(model, <<>>, "")

\* str.startswith over character sequences
StartsWith(s, prefix) ==
  /\ Len(s) >= Len(prefix)
  /\ SubSeq(s, 1, Len(prefix)) = prefix

\* sep.join(components)
RECURSIVE JoinStr(_, _)
JoinStr(cs, sep) ==
  IF cs = <<>> THEN ""
  ELSE IF Len(cs) = 1 THEN cs[1]
  ELSE cs[1] \o sep \o JoinStr(Tail(cs), sep)

\* The number of "/" a str starts with, from its split("/") components.
LeadingSlashes(parts) ==
  IF \A i \in DOMAIN parts : parts[i] = "" THEN Len(parts) - 1
  ELSE (CHOOSE i \in DOMAIN parts :
          parts[i] # "" /\ \A j \in 1..(i - 1) : parts[j] = "") - 1

StartsWithSlash(text) == LeadingSlashes(Split(text)) > 0

EndsWithSlash(text) ==
  LET parts == Split(text) IN Len(parts) >= 2 /\ parts[Len(parts)] = ""

\* os.path.join(a, b) of posixpath: an absolute b replaces a; otherwise the two
\* are concatenated, with a "/" between them unless a is empty or ends in one.
os_path_join(a, b) ==
  IF StartsWithSlash(b) THEN Concat(b)
  ELSE IF Concat(a) = "" \/ EndsWithSlash(a) THEN Concat(a) \o Concat(b)
  ELSE Concat(a) \o "/" \o Concat(b)

\* The components pathlib keeps: empty ones and "." are dropped.
PathComponents(parts) == SelectSeq(parts, LAMBDA c : c # "" /\ c # ".")

\* The root pathlib gives a POSIX path: "//" for exactly two leading slashes,
\* "/" for one or for three and more, none for a relative path.
PathRoot(text) ==
  LET n == LeadingSlashes(Split(text))
  IN  IF n = 0 THEN "" ELSE IF n = 2 THEN "//" ELSE "/"

\* str(PosixPath(a, b)): an absolute b replaces a; the components are joined
\* by single slashes after the root; the empty path is ".".
PosixPath_str(a, b) ==
  LET absolute == StartsWithSlash(b)
      root == IF absolute THEN PathRoot(b) ELSE PathRoot(a)
      components == IF absolute THEN PathComponents(Split(b))
                    ELSE PathComponents(Split(a)) \o PathComponents(Split(b))
      joined == root \o JoinStr(components, "/")
  IN  IF joined = "" THEN "." ELSE joined

\* str(year) inside an f-string or str.format
str(year) == ToString(year)

----------------------------------------------------------------------------
\* Scenario normaliser.

\* Mutation: an unrecognised scenario is passed through.
cmip6_scenario_to_rcp_nocheck(scenario) ==
  LET s == Concat(scenario) IN
  IF s = "ssp126" THEN Return("rcp2p6")
  ELSE IF s = "ssp245" THEN Return("rcp4p5")
  ELSE IF s = "ssp585" THEN Return("rcp8p5")
  ELSE Return(s)

cmip6_scenario_to_rcp(scenario) ==
  LET s == Concat(scenario) IN
  IF s = "ssp126" THEN Return("rcp2p6")
  ELSE IF s = "ssp245" THEN Return("rcp4p5")
  ELSE IF s = "ssp585" THEN Return("rcp8p5")
  ELSE IF s \notin {"rcp2p6", "rcp4p5", "rcp8p5", "historical"}
       THEN Raise("ValueError", "unexpected scenario")
       ELSE Return(s)

----------------------------------------------------------------------------
\* World Resource Aqueduct model.

wri_inundation_prefix == <<"inundation", "/", "wri", "/", "v2">>

\* Mutation: the 5th percentile suffix loses its zero padding.
percentiles_map_unpadded == [p \in {"95", "5", "50"} |->
  IF p = "95" THEN "0" ELSE IF p = "5" THEN "0_perc_5" ELSE "0_perc_50"]

percentiles_map == [p \in {"95", "5", "50"} |->
  IF p = "95" THEN "0" ELSE IF p = "5" THEN "0_perc_05" ELSE "0_perc_50"]

subsidence_set == {"wtsub", "nosub"}

\* Mutation: the subsidence component is not validated.
get_source_path_wri_coastal_inundation_anysub(model, scenario, year) ==
  LET type == "coast"
      model_components == Split(model)
      sub == model_components[1]
      perc == IF Len(model_components) = 1 THEN "95" ELSE model_components[2]
      rcp == cmip6_scenario_to_rcp(scenario)
  IN  IF rcp.tag = "raise" THEN rcp
      ELSE IF perc \notin DOMAIN percentiles_map THEN Raise("KeyError", "percentile")
      ELSE Return(os_path_join(wri_inundation_prefix,
             <<"inun" \o type \o "_" \o rcp.val \o "_" \o sub \o "_" \o str(year)
                 \o "_" \o percentiles_map[perc]>>))

\* The f-string of line 137 evaluates its fields left to right: the scenario
\* is normalised (and may raise) before the percentile is looked up.
get_source_path_wri_coastal_inundation(model, scenario, year) ==
  LET type == "coast"
      model_components == Split(model)
      sub == model_components[1]
      perc == IF Len(model_components) = 1 THEN "95" ELSE model_components[2]
      rcp == cmip6_scenario_to_rcp(scenario)
  IN  IF sub \notin subsidence_set
        THEN Raise("ValueError", "expected model input of the form {subsidence/percentile}")
      ELSE IF rcp.tag = "raise" THEN rcp
      ELSE IF perc \notin DOMAIN percentiles_map THEN Raise("KeyError", "percentile")
      ELSE Return(os_path_join(wri_inundation_prefix,
             <<"inun" \o type \o "_" \o rcp.val \o "_" \o sub \o "_" \o str(year)
                 \o "_" \o percentiles_map[perc]>>))

get_source_path_wri_riverine_inundation(model, scenario, year) ==
  LET type == "river"
      rcp == cmip6_scenario_to_rcp(scenario)
  IN  IF rcp.tag = "raise" THEN rcp
      ELSE Return(os_path_join(wri_inundation_prefix,
             <<"inun" \o type \o "_" \o rcp.val \o "_">> \o model \o <<"_" \o str(year)>>))

----------------------------------------------------------------------------
\* OS-C chronic heat model.

osc_chronic_heat_prefix == "chronic_heat/osc/v1"

\* Mutation: the threshold temperature (level2) is not validated.
get_source_path_osc_chronic_heat_anylevel2(model, scenario, year) ==
  LET parts == Split(model)
      type == Head(parts)
      levels == Tail(parts)
  IN  IF type = "mean_degree_days" THEN
        IF Len(levels) < 1 THEN Raise("IndexError", "levels[0]")
        ELSE IF levels[1] \notin {"above", "below"} THEN Raise("AssertionError", "levels[0]")
        ELSE IF Len(levels) < 2 THEN Raise("IndexError", "levels[1]")
        ELSE Return(osc_chronic_heat_prefix \o "/" \o type \o "_" \o levels[1] \o "_"
                      \o levels[2] \o "_" \o Concat(scenario) \o "_" \o str(year))
      ELSE IF type = "mean_work_loss" THEN
        IF Len(levels) < 1 THEN Raise("IndexError", "levels[0]")
        ELSE IF levels[1] \notin {"low", "medium", "high"} THEN Raise("AssertionError", "levels[0]")
        ELSE Return(osc_chronic_heat_prefix \o "/" \o type \o "_" \o levels[1] \o "_"
                      \o Concat(scenario) \o "_" \o str(year))
      ELSE Raise("ValueError", "valid types are {valid_types}")

\* type, *levels = model.split("/"); an index past the end of levels raises
\* IndexError, a failed assert raises AssertionError.
get_source_path_osc_chronic_heat(model, scenario, year) ==
  LET parts == Split(model)
      type == Head(parts)
      levels == Tail(parts)
  IN  IF type = "mean_degree_days" THEN
        IF Len(levels) < 1 THEN Raise("IndexError", "levels[0]")
        ELSE IF levels[1] \notin {"above", "below"} THEN Raise("AssertionError", "levels[0]")
        ELSE IF Len(levels) < 2 THEN Raise("IndexError", "levels[1]")
        ELSE IF levels[2] \notin {"18c", "32c"} THEN Raise("AssertionError", "levels[1]")
        ELSE Return(osc_chronic_heat_prefix \o "/" \o type \o "_" \o levels[1] \o "_"
                      \o levels[2] \o "_" \o Concat(scenario) \o "_" \o str(year))
      ELSE IF type = "mean_work_loss" THEN
        IF Len(levels) < 1 THEN Raise("IndexError", "levels[0]")
        ELSE IF levels[1] \notin {"low", "medium", "high"} THEN Raise("AssertionError", "levels[0]")
        ELSE Return(osc_chronic_heat_prefix \o "/" \o type \o "_" \o levels[1] \o "_"
                      \o Concat(scenario) \o "_" \o str(year))
      ELSE Raise("ValueError", "valid types are {valid_types}")

----------------------------------------------------------------------------
\* Generic (inventory-backed) path resolver.

\* Dispatch of a SourcePath callable held by name.
CallSourcePath(name, model, scenario, year) ==
  IF name = "wri_coastal_inundation"
    THEN get_source_path_wri_coastal_inundation(model, scenario, year)
  ELSE IF name = "wri_riverine_inundation"
    THEN get_source_path_wri_riverine_inundation(model, scenario, year)
  ELSE get_source_path_osc_chronic_heat(model, scenario, year)

\* hazards.hazard_class: the class named by a hazard type identifier.
hazard_class(hazard_type) == [class |-> hazard_type]

\* str.format(id=..., scenario=..., year=...) over a template given as a
\* sequence of literal tokens and replacement fields; the result is the token
\* sequence of the formatted str.
RECURSIVE Format(_, _, _, _)
Format(template, id, scenario, year) ==
  IF template = <<>> THEN <<>>
  ELSE LET e == Head(template)
           piece == IF e.k = "lit" THEN <<e.v>>
                    ELSE IF e.v = "id" THEN id
                    ELSE IF e.v = "scenario" THEN scenario
                    ELSE <<str(year)>>
       IN  piece \o Format(Tail(template), id, scenario, year)

\* The outcome of cmip6_scenario_to_rcp with its value as a token sequence.
AsTokens(o) == IF o.tag = "return" THEN Return(<<o.val>>) ELSE o

\* resources_dict of get_source_path_generic: the first resource of every id
\* registered for the hazard type.
resources_dict(inventory, hazard_type) ==
  [id \in {k[2] : k \in {kk \in DOMAIN inventory : kk[1] = hazard_type}} |->
     inventory[<<hazard_type, id>>][1]]

rcp_prefix == <<"r", "c", "p">>

\* Mutation: any declared scenario in the RCP convention triggers normalisation.
proxy_scenario_any(resource, scenario) ==
  IF \E i \in DOMAIN resource.scenarios : StartsWith(resource.scenarios[i].id, rcp_prefix)
    THEN AsTokens(cmip6_scenario_to_rcp(scenario))
    ELSE Return(scenario)

\* proxy_scenario of line 209
proxy_scenario(resource, scenario) ==
  IF StartsWith(resource.scenarios[1].id, rcp_prefix)
    THEN AsTokens(cmip6_scenario_to_rcp(scenario))
    ELSE Return(scenario)

\* Mutation: a lookup miss without fallback is reported as an error.
lookup_miss_raises(gen, model, scenario, year) ==
  IF ~gen.embedded.present THEN Raise("KeyError", "model")
  ELSE IF hazard_class(gen.hazard_type) \notin DOMAIN gen.embedded.map
    THEN Raise("KeyError", "embedded")
  ELSE CallSourcePath(gen.embedded.map[hazard_class(gen.hazard_type)], model, scenario, year)

\* Lines 203-206: the model is not in resources_dict.
lookup_miss(gen, model, scenario, year) ==
  IF ~gen.embedded.present THEN ReturnNone
  ELSE IF hazard_class(gen.hazard_type) \notin DOMAIN gen.embedded.map
    THEN Raise("KeyError", "embedded")
  ELSE CallSourcePath(gen.embedded.map[hazard_class(gen.hazard_type)], model, scenario, year)

\* The closure get_source_path returned by get_source_path_generic(inventory,
\* hazard_type, embedded); gen holds the three captured arguments.
get_source_path_generic(gen, model, scenario, year) ==
  LET rd == resources_dict(gen.inventory, gen.hazard_type)
      id == Concat(model)
  IN  IF id \notin DOMAIN rd THEN lookup_miss(gen, model, scenario, year)
      ELSE LET resource == rd[id]
               proxy == proxy_scenario(resource, scenario)
           IN  IF proxy.tag = "raise" THEN proxy
               ELSE Return(PosixPath_str(resource.path,
                      Format(resource.array_name, model, proxy.val, year)))

----------------------------------------------------------------------------
\* Inputs.

SeqsUpTo(S, n) == UNION {[1..k -> S] : k \in 1..n}

\* "/".join(components) as a token sequence
RECURSIVE JoinSlash(_)
JoinSlash(cs) ==
  IF Len(cs) = 1 THEN <<cs[1]>> ELSE <<cs[1], "/">> \o JoinSlash(Tail(cs))

Years == {2050, 2080}

Scenarios ==
  {<<"ssp126">>, <<"ssp245">>, <<"ssp585">>, <<"rcp2p6">>, <<"rcp4p5">>, <<"rcp8p5">>,
   <<"historical">>, <<"ssp370">>, <<>>}

CoastalParts == {"wtsub", "nosub", "95", "5", "50", "", "05"}

CoastalModels == {JoinSlash(cs) : cs \in SeqsUpTo(CoastalParts, MaxParts)}

RiverineModels == {<<"00000NorESM1-M">>, <<"000000000WATCH">>, <<>>, <<"a", "/", "b">>}

OscParts ==
  {"mean_degree_days", "mean_work_loss", "above", "below", "18c", "32c", "low", "medium",
   "high", ""}

OscModels == {JoinSlash(cs) : cs \in SeqsUpTo(OscParts, MaxParts)}

OscScenarios == {<<"ssp585">>, <<"rcp8p5">>, <<"un", "/", "known">>}

Lit(s) == [k |-> "lit", v |-> s]

Field(s) == [k |-> "field", v |-> s]

Chars_rcp4p5 == <<"r", "c", "p", "4", "p", "5">>

Chars_ssp245 == <<"s", "s", "p", "2", "4", "5">>

Chars_historical == <<"h", "i", "s", "t", "o", "r", "i", "c", "a", "l">>

ScenarioIds == {Chars_rcp4p5, Chars_ssp245, Chars_historical, <<"r", "c">>}

ScenarioLists ==
  {[i \in DOMAIN ids |-> [id |-> ids[i]]] : ids \in SeqsUpTo(ScenarioIds, MaxScen)}

RiverTemplate ==
  <<Lit("inunriver_"), Field("scenario"), Lit("_"), Field("id"), Lit("_"), Field("year")>>

HeatTemplate == <<Lit("days_"), Field("scenario"), Lit("/"), Field("year")>>

Resources ==
  {[path |-> <<"inundation", "/", "wri", "/", "v2">>, array_name |-> RiverTemplate,
    scenarios |-> sc] :
     sc \in ScenarioLists}
  \cup {[path |-> <<"chronic_heat", "/", "osc", "/", "v2", "/">>, array_name |-> HeatTemplate,
         scenarios |-> sc] :
     sc \in ScenarioLists}

\* A later duplicate of an id, shadowed by the first resource registered.
ShadowedResource ==
  [path |-> <<"shadowed">>, array_name |-> <<Lit("unused")>>,
   scenarios |-> <<[id |-> Chars_historical]>>]

HeatResource ==
  [path |-> <<"chronic_heat", "/", "osc", "/", "v2">>, array_name |-> HeatTemplate,
   scenarios |-> <<[id |-> Chars_ssp245]>>]

\* inventory.resources_by_type_id with modelA registered (twice) for
\* RiverineInundation and modelB for ChronicHeat.
InventoryOf(r) ==
  [k \in {<<"RiverineInundation", "modelA">>, <<"ChronicHeat", "modelB">>} |->
     IF k[2] = "modelA" THEN <<r, ShadowedResource>> ELSE <<HeatResource>>]

Inventories == {InventoryOf(r) : r \in Resources}

HazardTypes == {"RiverineInundation", "CoastalInundation", "ChronicHeat"}

EmbeddedFull ==
  [c \in {hazard_class(t) : t \in HazardTypes} |->
     IF c.class = "RiverineInundation" THEN "wri_riverine_inundation"
     ELSE IF c.class = "CoastalInundation" THEN "wri_coastal_inundation"
     ELSE "osc_chronic_heat"]

EmbeddedRiverOnly ==
  [c \in {hazard_class("RiverineInundation")} |-> "wri_riverine_inundation"]

Embeddeds ==
  {[present |-> FALSE, map |-> <<>>],
   [present |-> TRUE, map |-> EmbeddedFull],
   [present |-> TRUE, map |-> EmbeddedRiverOnly]}

GenericModels ==
  {<<"modelA">>, <<"modelB">>, <<"nosub", "/", "5">>, <<"mean_work_loss", "/", "high">>}

GenericScenarios ==
  {<<"ssp245">>, <<"rcp8p5">>, <<"historical">>, <<"ssp370">>, <<"x", "/", ".">>}

NoGen == [inventory |-> <<>>, hazard_type |-> "", embedded |-> [present |-> FALSE, map |-> <<>>]]

Gens ==
  {[inventory |-> inv, hazard_type |-> t, embedded |-> e] :
     inv \in Inventories, t \in HazardTypes, e \in Embeddeds}

MkCall(fn, gen, model, scenario, year) ==
  [fn |-> fn, gen |-> gen, model |-> model, scenario |-> scenario, year |-> year]

NoCall == MkCall("none", NoGen, <<>>, <<>>, 0)

FnCallInit ==
  \/ \E s \in Scenarios : call = MkCall("cmip6_scenario_to_rcp", NoGen, <<>>, s, 0)
  \/ \E m \in CoastalModels, s \in Scenarios, y \in Years :
       call = MkCall("wri_coastal_inundation", NoGen, m, s, y)
  \/ \E m \in RiverineModels, s \in Scenarios, y \in Years :
       call = MkCall("wri_riverine_inundation", NoGen, m, s, y)
  \/ \E m \in OscModels, s \in OscScenarios, y \in Years :
       call = MkCall("osc_chronic_heat", NoGen, m, s, y)
  \/ \E g \in Gens, m \in GenericModels, s \in GenericScenarios, y \in Years :
       call = MkCall("generic", g, m, s, y)

----------------------------------------------------------------------------
\* Specification of the pure functions: a call is drawn, then applied.

PyStr(x) == [t |-> "str", v |-> x]

PyNone == [t |-> "None", v |-> ""]

\* A keyword argument left out of the call.
Omitted == [t |-> "omitted", v |-> ""]

NoProvider ==
  [exists |-> FALSE, kind |-> "", resolver |-> "", gen |-> NoGen, reader |-> PyNone,
   interpolation |-> PyNone]

NoRequest ==
  [model |-> <<>>, scenario |-> <<>>, year |-> 0, longitudes |-> <<>>, latitudes |-> <<>>]

ProvInit ==
  /\ provider = NoProvider
  /\ ctor = [arg |-> Omitted, zarr_reader |-> PyNone, made |-> "pending", out |-> NoOutcome]
  /\ req = NoRequest
  /\ pc = "idle"
  /\ path = NoOutcome
  /\ reads = <<>>
  /\ readRes = NoOutcome
  /\ result = NoOutcome

FnInit ==
  /\ FnCallInit
  /\ out = NoOutcome
  /\ ProvInit

Apply_cmip6_scenario_to_rcp ==
  /\ call.fn = "cmip6_scenario_to_rcp" /\ out.tag = "pending"
  /\ out' = cmip6_scenario_to_rcp(call.scenario)
  /\ UNCHANGED <<call, provVars>>

Apply_wri_coastal_inundation ==
  /\ call.fn = "wri_coastal_inundation" /\ out.tag = "pending"
  /\ out' = get_source_path_wri_coastal_inundation(call.model, call.scenario, call.year)
  /\ UNCHANGED <<call, provVars>>

Apply_wri_riverine_inundation ==
  /\ call.fn = "wri_riverine_inundation" /\ out.tag = "pending"
  /\ out' = get_source_path_wri_riverine_inundation(call.model, call.scenario, call.year)
  /\ UNCHANGED <<call, provVars>>

Apply_osc_chronic_heat ==
  /\ call.fn = "osc_chronic_heat" /\ out.tag = "pending"
  /\ out' = get_source_path_osc_chronic_heat(call.model, call.scenario, call.year)
  /\ UNCHANGED <<call, provVars>>

Apply_generic ==
  /\ call.fn = "generic" /\ out.tag = "pending"
  /\ out' = get_source_path_generic(call.gen, call.model, call.scenario, call.year)
  /\ UNCHANGED <<call, provVars>>

FnNext ==
  \/ Apply_cmip6_scenario_to_rcp
  \/ Apply_wri_coastal_inundation
  \/ Apply_wri_riverine_inundation
  \/ Apply_osc_chronic_heat
  \/ Apply_generic

SpecFn == FnInit /\ [][FnNext]_vars

----------------------------------------------------------------------------
\* Error kinds of the specification, by the raise site that produces them.

InvalidScenario(o) ==
  o.tag = "raise" /\ o.exc = "ValueError" /\ o.msg = "unexpected scenario"

InvalidModel(o) ==
  /\ o.tag = "raise"
  /\ \/ o.exc = "ValueError" /\ o.msg # "unexpected scenario"
     \/ o.exc = "KeyError" /\ o.msg = "percentile"
     \/ o.exc \in {"AssertionError", "IndexError"}

RecognisedScenarios ==
  {"ssp126", "ssp245", "ssp585", "rcp2p6", "rcp4p5", "rcp8p5", "historical"}

\* The scenario table of section 4.1 of the specification.
RcpOf(s) ==
  CASE s = "ssp126" -> "rcp2p6"
    [] s = "ssp245" -> "rcp4p5"
    [] s = "ssp585" -> "rcp8p5"
    [] OTHER -> s

Applied(fn) == call.fn = fn /\ out.tag # "pending"

\* The scenario argument as the str it is.
ScenarioStr == Concat(call.scenario)

----------------------------------------------------------------------------
\* Claims about the pure functions (checked under SpecFn).

\* C1: cmip6_scenario_to_rcp maps ssp126, ssp245, ssp585 to rcp2p6, rcp4p5,
\* rcp8p5 (three distinct outputs), returns rcp2p6, rcp4p5, rcp8p5 and
\* historical unchanged, and fails with InvalidScenario, returning no value, on
\* every other scenario string.
C1_Normalizer ==
  Applied("cmip6_scenario_to_rcp") =>
    /\ ScenarioStr = "ssp126" => out = Return("rcp2p6")
    /\ ScenarioStr = "ssp245" => out = Return("rcp4p5")
    /\ ScenarioStr = "ssp585" => out = Return("rcp8p5")
    /\ ScenarioStr \in {"rcp2p6", "rcp4p5", "rcp8p5", "historical"}
         => out = Return(ScenarioStr)
    /\ ScenarioStr \notin RecognisedScenarios
         => InvalidScenario(out) /\ out.tag # "return" /\ out.val = ""

C1_Witness ==
  /\ Applied("cmip6_scenario_to_rcp")
  /\ call.scenario = <<"ssp370">>
  /\ out.tag = "raise"

\* The models "sub" and "sub/perc" of the WRI coastal family.
CoastalWellFormed ==
  \E sub \in {"wtsub", "nosub"} :
    \/ call.model = <<sub>>
    \/ \E perc \in {"95", "5", "50"} : call.model = <<sub, "/", perc>>

CoastalSuffix ==
  IF Len(call.model) = 1 \/ call.model[3] = "95" THEN "0"
  ELSE IF call.model[3] = "5" THEN "0_perc_05"
  ELSE "0_perc_50"

\* C2: for a model "sub" or "sub/perc" with sub in {wtsub, nosub} and perc in
\* {95, 5, 50}, a recognised scenario and any year, the coastal resolver returns
\* exactly inundation/wri/v2/inuncoast_<rcp(scenario)>_<sub>_<year>_<suffix>,
\* the suffix being 0, 0_perc_05, 0_perc_50 for perc 95, 5, 50; a model without
\* percentile gets the suffix of perc 95.
C2_CoastalPath ==
  (Applied("wri_coastal_inundation") /\ CoastalWellFormed
     /\ ScenarioStr \in RecognisedScenarios) =>
    out = Return("inundation/wri/v2/inuncoast_" \o RcpOf(ScenarioStr) \o "_"
            \o call.model[1] \o "_" \o ToString(call.year) \o "_" \o CoastalSuffix)

C2_Witness ==
  /\ Applied("wri_coastal_inundation")
  /\ call.model = <<"nosub", "/", "5">>
  /\ call.scenario = <<"ssp245">>
  /\ call.year = 2080
  /\ out = Return("inundation/wri/v2/inuncoast_rcp4p5_nosub_2080_0_perc_05")

\* The not-registered case of the generic resolver without embedded fallback.
GenericMissNoFallback ==
  /\ Applied("generic")
  /\ <<call.gen.hazard_type, Concat(call.model)>> \notin DOMAIN call.gen.inventory
  /\ ~call.gen.embedded.present

\* C3: when the model is not registered for the hazard type and no embedded
\* fallback was supplied, the generic resolver returns None for every scenario
\* and year, unrecognised scenarios included: it neither raises nor returns a
\* path string.
C3_GenericAbsent ==
  GenericMissNoFallback => out = ReturnNone

C3_Witness ==
  /\ GenericMissNoFallback
  /\ call.scenario = <<"ssp370">>
  /\ call.model = <<"modelB">>
  /\ call.gen.hazard_type = "RiverineInundation"
  /\ out.tag = "none"

GenericRegistered ==
  /\ Applied("generic")
  /\ <<call.gen.hazard_type, Concat(call.model)>> \in DOMAIN call.gen.inventory

FirstResource == call.gen.inventory[<<call.gen.hazard_type, Concat(call.model)>>][1]

FirstIdIsRcp ==
  LET id == FirstResource.scenarios[1].id
  IN  Len(id) >= 3 /\ id[1] = "r" /\ id[2] = "c" /\ id[3] = "p"

GenericPathWith(scenario) ==
  Return(PosixPath_str(FirstResource.path,
           Format(FirstResource.array_name, call.model, scenario, call.year)))

\* C4: for a registered model the generic resolver formats the array-name
\* template with the RCP-normalised caller scenario if and only if the id of
\* the resource's first declared scenario starts with "rcp", and with the
\* caller's scenario verbatim otherwise; later declared scenarios play no part.
C4_ProxyScenario ==
  GenericRegistered =>
    /\ (FirstIdIsRcp /\ ScenarioStr \in RecognisedScenarios)
         => out = GenericPathWith(<<RcpOf(ScenarioStr)>>)
    /\ ~FirstIdIsRcp => out = GenericPathWith(call.scenario)

C4_Witness ==
  /\ GenericRegistered
  /\ call.model = <<"modelA">>
  /\ call.scenario = <<"ssp245">>
  /\ call.year = 2050
  /\ FirstResource.array_name = RiverTemplate
  /\ Len(FirstResource.scenarios) = 2
  /\ FirstResource.scenarios[1].id = Chars_ssp245
  /\ FirstResource.scenarios[2].id = Chars_rcp4p5
  /\ out = Return("inundation/wri/v2/inunriver_ssp245_modelA_2050")

\* The other half of C4: first scenario rcp4p5, caller scenario ssp245.
C4_WitnessRcp ==
  /\ GenericRegistered
  /\ call.model = <<"modelA">>
  /\ call.scenario = <<"ssp245">>
  /\ call.year = 2050
  /\ FirstResource.array_name = RiverTemplate
  /\ FirstResource.scenarios[1].id = Chars_rcp4p5
  /\ out = Return("inundation/wri/v2/inunriver_rcp4p5_modelA_2050")

OscType == Head(Split(call.model))

OscLevels == Tail(Split(call.model))

\* The malformed models of the OS-C chronic heat family named by C7.
OscMalformed ==
  \/ /\ OscType = "mean_degree_days"
     /\ \/ Len(OscLevels) < 1
        \/ OscLevels[1] \notin {"above", "below"}
        \/ Len(OscLevels) < 2
        \/ OscLevels[2] \notin {"18c", "32c"}
  \/ /\ OscType = "mean_work_loss"
     /\ \/ Len(OscLevels) < 1
        \/ OscLevels[1] \notin {"low", "medium", "high"}
  \/ OscType \notin {"mean_degree_days", "mean_work_loss"}

\* C7: get_source_path_osc_chronic_heat fails with InvalidModel and returns no
\* path for a mean_degree_days model whose level1 is missing or not in {above,
\* below} or whose level2 is missing or not in {18c, 32c}, for a mean_work_loss
\* model whose level1 is missing or not in {low, medium, high}, and for every
\* other type.
C7_OscInvalidModel ==
  (Applied("osc_chronic_heat") /\ OscMalformed) => InvalidModel(out)

C7_Witness ==
  /\ Applied("osc_chronic_heat")
  /\ call.model = <<"mean_degree_days", "/", "above", "/", "low">>
  /\ out = Raise("AssertionError", "levels[1]")

CoastalParts2 == Split(call.model)

CoastalBadSub == CoastalParts2[1] \notin {"wtsub", "nosub"}

CoastalBadPerc == Len(CoastalParts2) >= 2 /\ CoastalParts2[2] \notin {"95", "5", "50"}

\* C8 (as stated): the coastal resolver fails with InvalidModel whenever the
\* subsidence component is not in {wtsub, nosub} and whenever a percentile is
\* present and is not one of 95, 5, 50, for every scenario and year.
C8_AsStated ==
  (Applied("wri_coastal_inundation") /\ (CoastalBadSub \/ CoastalBadPerc))
    => InvalidModel(out)

\* C8 (amended): in those cases the coastal resolver always fails and returns
\* no path; the failure is InvalidModel when the subsidence component is
\* invalid, or when the percentile is invalid and the scenario is recognised;
\* with a valid subsidence, an invalid percentile and an unrecognised scenario
\* the failure is InvalidScenario, the scenario being normalised first.
C8_CoastalInvalidModel ==
  (Applied("wri_coastal_inundation") /\ (CoastalBadSub \/ CoastalBadPerc)) =>
    /\ out.tag = "raise"
    /\ (CoastalBadSub \/ ScenarioStr \in RecognisedScenarios) => InvalidModel(out)
    /\ (~CoastalBadSub /\ ScenarioStr \notin RecognisedScenarios) => InvalidScenario(out)

C8_Witness ==
  /\ Applied("wri_coastal_inundation")
  /\ call.model = <<"wtsub", "/", "05">>
  /\ call.scenario = <<"rcp8p5">>
  /\ out = Raise("KeyError", "percentile")

----------------------------------------------------------------------------
\* Hazard data providers.

\* An object other than a str or None (a reader, a store).
PyObj(x) == [t |-> "obj", v |-> x]

\* ZarrReader(store=store): the reader built over the store, or the failure
\* of its construction.
ZarrReader_init(store) ==
  {Return(PyObj("ZarrReader")), Raise("Exception", "ZarrReader construction failed")}

\* Mutation: the interpolation mode is stored without being validated.
HazardDataProvider_init_unchecked(kind, binding, store, zarr_reader, arg, made) ==
  LET reader == IF zarr_reader # PyNone THEN Return(zarr_reader) ELSE made
      interpolation == IF arg = Omitted THEN PyStr("floor") ELSE arg
  IN  IF reader.tag = "raise" THEN reader
      ELSE Return([exists |-> TRUE, kind |-> kind, resolver |-> binding.resolver,
                   gen |-> binding.gen, reader |-> reader.val,
                   interpolation |-> interpolation])

\* HazardDataProvider.__init__ as run by both subclasses. Line 41 takes the
\* reader passed in or, when zarr_reader is None, builds ZarrReader(store=store)
\* (made is the outcome of that construction), whose failure leaves __init__
\* before the interpolation mode is looked at; lines 42-44 then validate the
\* mode, whose default is "floor".
HazardDataProvider_init(kind, binding, store, zarr_reader, arg, made) ==
  LET reader == IF zarr_reader # PyNone THEN Return(zarr_reader) ELSE made
      interpolation == IF arg = Omitted THEN PyStr("floor") ELSE arg
  IN  IF reader.tag = "raise" THEN reader
      ELSE IF interpolation \notin {PyStr("floor"), PyStr("linear")}
        THEN Raise("ValueError", "interpolation must be 'floor' or 'linear'")
      ELSE Return([exists |-> TRUE, kind |-> kind, resolver |-> binding.resolver,
                   gen |-> binding.gen, reader |-> reader.val,
                   interpolation |-> interpolation])

\* self._get_source_path(model=..., scenario=..., year=...)
BoundSourcePath(p, r) ==
  IF p.resolver = "generic"
    THEN get_source_path_generic(p.gen, r.model, r.scenario, r.year)
    ELSE CallSourcePath(p.resolver, r.model, r.scenario, r.year)

\* Mutation: a failed resolution is swallowed and the read goes ahead.
AfterResolve_swallow(p) == "read"

\* Control after line 77 / 111: an exception of the resolver propagates out of
\* the method, any returned value (a string or None) goes on to the read.
AfterResolve(p) == IF p.tag = "raise" THEN "raised" ELSE "read"

\* The value bound to the local variable path.
PathValue(p) == IF p.tag = "none" THEN PyNone ELSE PyStr(p.val)

Values == {1, 2}

ReturnPeriods(k) == [j \in 1..k |-> 10 * j]

\* ZarrReader.get_curves: a 2-D array with one row per coordinate pair and at
\* least one column, with the labels of its columns, or a failure of the read.
ReaderOutcomes(p, longitudes, latitudes, interpolation) ==
  UNION {{Return([values |-> a, labels |-> ReturnPeriods(k)]) :
            a \in [1..Len(longitudes) -> [1..k -> Values]]} : k \in 1..MaxCols}
  \cup {Raise("KeyError", "upstream read failure")}

\* Mutation: the last column is taken instead of the first.
Column_last(values) == [i \in DOMAIN values |-> values[i][Len(values[i])]]

\* parameters[:, 0]
Column0(values) == [i \in DOMAIN values |-> values[i][1]]

----------------------------------------------------------------------------
\* Inputs of the provider specification.

RiverResource ==
  [path |-> <<"inundation", "/", "wri", "/", "v2">>, array_name |-> RiverTemplate,
   scenarios |-> <<[id |-> Chars_rcp4p5]>>]

ProviderBindings ==
  {[resolver |-> n, gen |-> NoGen] :
     n \in {"wri_coastal_inundation", "wri_riverine_inundation", "osc_chronic_heat"}}
  \cup {[resolver |-> "generic",
         gen |-> [inventory |-> InventoryOf(RiverResource),
                  hazard_type |-> "RiverineInundation", embedded |-> e]] :
          e \in {[present |-> FALSE, map |-> <<>>], [present |-> TRUE, map |-> EmbeddedFull]}}

\* store and zarr_reader default to None.
StoreArgs == {PyNone, PyObj("store")}

ReaderArgs == {PyNone, PyObj("reader")}

InterpolationArgs ==
  {Omitted, PyNone, PyStr("floor"), PyStr("linear"), PyStr("nearest"), PyStr("")}

ProviderModels ==
  {<<"wtsub", "/", "95">>, <<"wtsub", "/", "7">>, <<"mean_work_loss", "/", "high">>,
   <<"modelA">>, <<"modelB">>}

ProviderScenarios == {<<"ssp245">>, <<"rcp8p5">>, <<"ssp370">>}

ProviderYears == {2050}

Longitudes(n) == [i \in 1..n |-> 10 * i]

Latitudes(n) == [i \in 1..n |-> 40 + i]

Requests ==
  {[model |-> m, scenario |-> s, year |-> y, longitudes |-> Longitudes(n),
    latitudes |-> Latitudes(n)] :
     m \in ProviderModels, s \in ProviderScenarios, y \in ProviderYears, n \in 0..MaxCoords}

----------------------------------------------------------------------------
\* Specification of the providers.

Init ==
  /\ call = NoCall
  /\ out = NoOutcome
  /\ ProvInit

\* AcuteHazardDataProvider(...) / ChronicHazardDataProvider(...)
Construct ==
  /\ ~provider.exists
  /\ \E kind \in {"acute", "chronic"}, b \in ProviderBindings, arg \in InterpolationArgs,
        store \in StoreArgs, zarr_reader \in ReaderArgs :
       \E made \in ZarrReader_init(store) :
         LET r == HazardDataProvider_init(kind, b, store, zarr_reader, arg, made)
         IN  /\ ctor' = [arg |-> arg, zarr_reader |-> zarr_reader,
                         made |-> IF zarr_reader = PyNone THEN made.tag ELSE "pending",
                         out |-> IF r.tag = "raise" THEN r ELSE ReturnNone]
             /\ provider' = IF r.tag = "raise" THEN provider ELSE r.val
  /\ UNCHANGED <<call, out, req, pc, path, reads, readRes, result>>

\* Entry of AcuteHazardDataProvider.get_intensity_curves
GetIntensityCurves ==
  /\ provider.exists /\ provider.kind = "acute" /\ pc = "idle"
  /\ req' \in Requests
  /\ pc' = "resolve"
  /\ UNCHANGED <<call, out, provider, ctor, path, reads, readRes, result>>

\* Entry of ChronicHazardDataProvider.get_parameters
GetParameters ==
  /\ provider.exists /\ provider.kind = "chronic" /\ pc = "idle"
  /\ req' \in Requests
  /\ pc' = "resolve"
  /\ UNCHANGED <<call, out, provider, ctor, path, reads, readRes, result>>

\* Line 77 / 111: path = self._get_source_path(...)
ResolvePath ==
  /\ pc = "resolve"
  /\ path' = BoundSourcePath(provider, req)
  /\ pc' = AfterResolve(path')
  /\ result' = IF pc' = "raised" THEN path' ELSE result
  /\ UNCHANGED <<call, out, provider, ctor, req, reads, readRes>>

\* Line 78 / 112: self._reader.get_curves(path, longitudes, latitudes,
\* self._interpolation); the call is logged in reads.
ReadCurves ==
  /\ pc = "read"
  /\ reads' = Append(reads, [path |-> PathValue(path), longitudes |-> req.longitudes,
                             latitudes |-> req.latitudes,
                             interpolation |-> provider.interpolation])
  /\ readRes' \in ReaderOutcomes(PathValue(path), req.longitudes, req.latitudes,
                                 provider.interpolation)
  /\ pc' = IF readRes'.tag = "raise" THEN "raised" ELSE "reduce"
  /\ result' = IF readRes'.tag = "raise" THEN readRes' ELSE result
  /\ UNCHANGED <<call, out, provider, ctor, req, path>>

\* Line 81: return curves, return_periods
ReturnCurves ==
  /\ pc = "reduce" /\ provider.kind = "acute"
  /\ result' = Return(<<readRes.val.values, readRes.val.labels>>)
  /\ pc' = "returned"
  /\ UNCHANGED <<call, out, provider, ctor, req, path, reads, readRes>>

\* Line 113: return parameters[:, 0]
ReturnParameters ==
  /\ pc = "reduce" /\ provider.kind = "chronic"
  /\ result' = Return(Column0(readRes.val.values))
  /\ pc' = "returned"
  /\ UNCHANGED <<call, out, provider, ctor, req, path, reads, readRes>>

\* The caller has the result or the exception; the provider keeps no trace.
Complete ==
  /\ pc \in {"returned", "raised"}
  /\ pc' = "idle"
  /\ req' = NoRequest
  /\ path' = NoOutcome
  /\ reads' = <<>>
  /\ readRes' = NoOutcome
  /\ result' = NoOutcome
  /\ UNCHANGED <<call, out, provider, ctor>>

Next ==
  \/ Construct
  \/ GetIntensityCurves
  \/ GetParameters
  \/ ResolvePath
  \/ ReadCurves
  \/ ReturnCurves
  \/ ReturnParameters
  \/ Complete

Spec == Init /\ [][Next]_vars

----------------------------------------------------------------------------
\* Claims about the providers (checked under Spec).

\* C5: a request whose path resolution raises (InvalidScenario or InvalidModel
\* from the bound resolver) never reaches the reader: the exception is the
\* outcome of the method and no get_curves call is logged for the request; so
\* every logged read of a request follows a resolution of that request that
\* returned without raising.
C5_NoReadAfterFailedResolution ==
  /\ path.tag = "raise" => (reads = <<>> /\ pc = "raised" /\ result = path)
  /\ reads # <<>> => (path.tag \in {"return", "none"} /\ path = BoundSourcePath(provider, req))

C5_Witness ==
  /\ pc = "raised"
  /\ provider.resolver = "wri_coastal_inundation"
  /\ req.model = <<"wtsub", "/", "7">>
  /\ req.scenario = <<"ssp245">>
  /\ path = Raise("KeyError", "percentile")
  /\ result = path
  /\ reads = <<>>

\* C6: when resolution and read succeed, get_parameters returns exactly column
\* 0 of the array the reader returned for the resolved path, the request's
\* coordinates and the provider's interpolation mode: one value per coordinate
\* pair, in coordinate order, without the labels.
C6_ParametersAreColumn0 ==
  (pc = "returned" /\ provider.kind = "chronic") =>
    /\ reads = <<[path |-> PathValue(path), longitudes |-> req.longitudes,
                  latitudes |-> req.latitudes, interpolation |-> provider.interpolation]>>
    /\ readRes.tag = "return"
    /\ result.tag = "return"
    /\ Len(result.val) = Len(req.longitudes)
    /\ \A i \in 1..Len(req.longitudes) : result.val[i] = readRes.val.values[i][1]

C6_Witness ==
  /\ pc = "returned"
  /\ provider.kind = "chronic"
  /\ provider.resolver = "osc_chronic_heat"
  /\ path = Return("chronic_heat/osc/v1/mean_work_loss_high_ssp245_2050")
  /\ Len(req.longitudes) = 2
  /\ readRes.tag = "return"
  /\ readRes.val.values = <<(<<1, 2>>), (<<2, 1>>)>>
  /\ result = Return(<<1, 2>>)

LegalInterpolation == {PyStr("floor"), PyStr("linear")}

InvalidConfiguration(o) ==
  o = Raise("ValueError", "interpolation must be 'floor' or 'linear'")

IllegalModeGiven == ctor.out.tag # "pending" /\ ctor.arg \notin LegalInterpolation \cup {Omitted}

\* C9 (as stated): construction succeeds only with interpolation "floor" or
\* "linear", the default being "floor"; any other value, None included, fails
\* with InvalidConfiguration at construction, so no provider holds an illegal
\* mode and every delegated read carries a legal one.
C9_AsStated ==
  /\ provider.exists => provider.interpolation \in LegalInterpolation
  /\ IllegalModeGiven => InvalidConfiguration(ctor.out)
  /\ \A i \in DOMAIN reads : reads[i].interpolation \in LegalInterpolation

\* C9 (amended): construction succeeds only with interpolation "floor" or
\* "linear", the default being "floor"; any other value, None included, makes
\* construction fail and leaves no provider: with InvalidConfiguration when a
\* reader was passed in or the default reader was built, and with the failure
\* of the default reader's construction when that fails, which happens before
\* the mode is checked. No provider holds an illegal mode and every delegated
\* read carries a legal one.
C9_InterpolationValidated ==
  /\ provider.exists => provider.interpolation \in LegalInterpolation
  /\ ctor.out.tag = "none" =>
       /\ provider.exists
       /\ ctor.arg \in LegalInterpolation \cup {Omitted}
       /\ provider.interpolation = IF ctor.arg = Omitted THEN PyStr("floor") ELSE ctor.arg
  /\ ctor.out.tag = "raise" =>
       /\ ~provider.exists
       /\ InvalidConfiguration(ctor.out) \/ ctor.made = "raise"
       /\ InvalidConfiguration(ctor.out) => ctor.arg \notin LegalInterpolation \cup {Omitted}
  /\ IllegalModeGiven =>
       /\ ctor.out.tag = "raise"
       /\ ctor.made # "raise" => InvalidConfiguration(ctor.out)
       /\ ctor.made = "raise" =>
            ctor.out = Raise("Exception", "ZarrReader construction failed")
  /\ \A i \in DOMAIN reads : reads[i].interpolation \in LegalInterpolation

C9_Witness ==
  /\ ctor.arg = PyNone
  /\ ctor.zarr_reader = PyObj("reader")
  /\ InvalidConfiguration(ctor.out)
  /\ ~provider.exists

\* The case the statement of C9 misses: an illegal mode, no reader passed in,
\* and the construction of the default reader fails first.
C9_WitnessReaderFails ==
  /\ ctor.arg = PyStr("nearest")
  /\ ctor.zarr_reader = PyNone
  /\ ctor.out = Raise("Exception", "ZarrReader construction failed")
  /\ ~provider.exists

\* A read delegated with the second legal mode.
C9_WitnessRead ==
  /\ ctor.arg = PyStr("linear")
  /\ reads # <<>>
  /\ reads[1].interpolation = PyStr("linear")

\* C10 (as stated): when the bound resolver yields the absent result, the
\* absence is checked before the reader is invoked, so get_curves is never
\* called with an absent path.
C10_AbsentPathNeverRead ==
  \A i \in DOMAIN reads : reads[i].path # PyNone

\* The state C10 excludes: the generic resolver returned None and the reader
\* was called with it.
C10_AbsentPathRead ==
  /\ provider.resolver = "generic"
  /\ ~provider.gen.embedded.present
  /\ req.model = <<"modelB">>
  /\ path = ReturnNone
  /\ reads # <<>>
  /\ reads[1].path = PyNone

====
